---- MODULE Spec2Model ----
(***************************************************************************)
(* Model of template/build/events/postbuild.py: the post-build pipeline    *)
(* that stops the running game, cleans and fills the mods directory,       *)
(* copies the built mod and launches the game or the multiplayer starter.  *)
(*                                                                         *)
(* The filesystem is one function from paths (tuples of names starting at  *)
(* "/") to nodes: "dir" for a directory, any other string is the content   *)
(* of a regular file.  Time is counted in tenths of a second.              *)
(***************************************************************************)
EXTENDS Integers, Sequences, FiniteSets, TLC

\* ----------------------------------------------------------------- bounds
\* longest --mod list
MaxMods == 2
\* most I/O errors (exceptions of shutil / unlink) injected in one run
MaxFaults == 1
\* number of consecutive invocations of the script
MaxRuns == 2
\* largest --wait-seconds, in tenths of a second
MaxWait == 1

\* ------------------------------------------------------ program constants
\* wait_for_exit: deadline = time.time() + wait_seconds + 2.0
SafetyMargin == 20
\* wait_for_exit: time.sleep(0.2)
PollInterval == 2
\* kill_processes: time.sleep(0.5) after wineserver -k
GraceDelay == 5
\* typer.Exit(code=1)
ExitFatal == 1

\* ------------------------------------------------------------------ paths
\* an Optional[str] option that was not given
None == <<"<None>">>
\* an option given as the empty string
EmptyStr == <<"">>

\* Python truthiness of an Optional[str]
Truthy(s) == s # None /\ s # EmptyStr

\* Path.is_absolute
IsAbsolute(p) == Len(p) > 0 /\ p[1] = "/"

\* pathlib: a / b
Join(a, b) == IF IsAbsolute(b) THEN b ELSE a \o b

\* Path.name
Name(p) == p[Len(p)]

\* Path.parent
Parent(p) == SubSeq(p, 1, Len(p) - 1)

\* p is q or an ancestor of q
IsPrefix(p, q) == Len(p) <= Len(q) /\ SubSeq(q, 1, Len(p)) = p

\* str.lower on the names that occur
Lower(n) ==
    CASE n \in {"Mods", "mods", "MODS"} -> "mods"
      [] n \in {"Plugins", "plugins"} -> "plugins"
      [] n \in {"UserLibs", "userlibs"} -> "userlibs"
      [] OTHER -> n

\* ------------------------------------------------------------- filesystem
Exists(f, p) == p \in DOMAIN f
IsDir(f, p) == Exists(f, p) /\ f[p] = "dir"
IsFile(f, p) == Exists(f, p) /\ f[p] # "dir"

\* Path.iterdir: the entries of directory p
IterDir(f, p) == {q \in DOMAIN f : Len(q) = Len(p) + 1 /\ IsPrefix(p, q)}

\* the subtree of f at p, with paths relative to p
SubTree(f, p) ==
    LET under == {q \in DOMAIN f : IsPrefix(p, q)}
        rel(q) == SubSeq(q, Len(p) + 1, Len(q))
    IN  [r \in {rel(q) : q \in under} |-> f[p \o r]]

\* shutil.rmtree(p) / Path.unlink(p), when it succeeds
RmTree(f, p) == [q \in {r \in DOMAIN f : ~IsPrefix(p, r)} |-> f[q]]

\* Path.mkdir(parents=True, exist_ok=True)
MkDirs(f, p) ==
    LET new == {SubSeq(p, 1, k) : k \in 1..Len(p)} \ DOMAIN f
    IN  [q \in DOMAIN f \cup new |-> IF q \in new THEN "dir" ELSE f[q]]

\* shutil.copytree(s, t), when it succeeds (t does not exist)
CopyTree(f, s, t) ==
    LET sub == SubTree(f, s)
        new == {t \o r : r \in DOMAIN sub}
    IN  [q \in DOMAIN f \cup new |->
            IF q \in new THEN sub[SubSeq(q, Len(t) + 1, Len(q))] ELSE f[q]]

\* shutil.copy2(s, t), when it succeeds: into t when t is a directory
Copy2(f, s, t) ==
    LET dst == IF IsDir(f, t) THEN t \o <<Name(s)>> ELSE t
    IN  [q \in DOMAIN f \cup {dst} |-> IF q = dst THEN f[s] ELSE f[q]]

\* a filesystem from a set of <<path, node>> pairs
MkFS(S) == [p \in {e[1] : e \in S} |-> (CHOOSE e \in S : e[1] = p)[2]]


\* -------------------------------------------------- the files of the world
Root == <<"/">>
\* --project-dir
project_dir == <<"/", "proj">>
\* the build output directory and the built mod
target_present == <<"/", "proj", "bin", "MyMod.dll">>
target_missing == <<"/", "proj", "bin", "Gone.dll">>
\* the game directory, its mods directory and its executable
game_dir == <<"/", "game">>
mods_dir == <<"/", "game", "Mods">>
exe_path == <<"/", "game", "Game.exe">>
\* the compatibility-layer binary, where installed
wine_present == <<"/", "opt", "wine">>
wine_missing == <<"wine">>

Ext(n) == <<"/", "proj", "ext">> \o n

\* what the project holds: the built mod and the add-ons on offer
\*   Dep.dll           a single file
\*   MyMod.dll         a single file named like the built mod
\*   Flat/             a flat folder
\*   AddonA/           a structured tree with Mods (a file and a folder) and Plugins
\*   AddonP/           a structured tree with plugins (lower case) and UserLibs only
\*   AddonM/           a structured tree with two folders that match "Mods": mods and Mods
\*   AddonE/           a structured tree with one item in Mods and an empty Plugins
\*   start.bat         the multiplayer starter
SourceFiles ==
    { <<Root, "dir">>, <<project_dir, "dir">>,
      <<<<"/", "proj", "bin">>, "dir">>, <<target_present, "build">>,
      <<<<"/", "proj", "ext">>, "dir">>,
      <<Ext(<<"Dep.dll">>), "dep">>,
      <<Ext(<<"MyMod.dll">>), "other">>,
      <<Ext(<<"Flat">>), "dir">>, <<Ext(<<"Flat", "a.txt">>), "a">>,
      <<Ext(<<"AddonA">>), "dir">>,
      <<Ext(<<"AddonA", "Mods">>), "dir">>,
      <<Ext(<<"AddonA", "Mods", "Foo.dll">>), "foo">>,
      <<Ext(<<"AddonA", "Mods", "Pack">>), "dir">>,
      <<Ext(<<"AddonA", "Mods", "Pack", "p.txt">>), "p">>,
      <<Ext(<<"AddonA", "Plugins">>), "dir">>,
      <<Ext(<<"AddonA", "Plugins", "Bar.dll">>), "bar">>,
      <<Ext(<<"AddonP">>), "dir">>,
      <<Ext(<<"AddonP", "plugins">>), "dir">>,
      <<Ext(<<"AddonP", "plugins", "Baz.dll">>), "baz">>,
      <<Ext(<<"AddonP", "UserLibs">>), "dir">>,
      <<Ext(<<"AddonP", "UserLibs", "Lib.dll">>), "lib">>,
      <<Ext(<<"AddonM">>), "dir">>,
      <<Ext(<<"AddonM", "mods">>), "dir">>,
      <<Ext(<<"AddonM", "mods", "Low.dll">>), "low">>,
      <<Ext(<<"AddonM", "Mods">>), "dir">>,
      <<Ext(<<"AddonM", "Mods", "Up.dll">>), "up">>,
      <<Ext(<<"AddonE">>), "dir">>,
      <<Ext(<<"AddonE", "Mods">>), "dir">>,
      <<Ext(<<"AddonE", "Mods", "E.dll">>), "e">>,
      <<Ext(<<"AddonE", "Plugins">>), "dir">>,
      <<Ext(<<"start.bat">>), "starter">>,
      <<<<"/", "opt">>, "dir">>, <<wine_present, "wine">>,
      <<game_dir, "dir">>, <<exe_path, "exe">> }

\* a game directory that earlier deployments have filled with older copies
StaleFiles ==
    { <<mods_dir, "dir">>,
      <<mods_dir \o <<"Dep.dll">>, "old">>,
      <<mods_dir \o <<"MyMod.dll">>, "old">>,
      <<mods_dir \o <<"Flat">>, "dir">>,
      <<mods_dir \o <<"Flat", "old.txt">>, "old">>,
      <<mods_dir \o <<"Foo.dll">>, "old">>,
      <<mods_dir \o <<"Pack">>, "dir">>,
      <<mods_dir \o <<"Pack", "old.txt">>, "old">>,
      <<game_dir \o <<"Plugins">>, "dir">>,
      <<game_dir \o <<"Plugins", "Baz.dll">>, "old">>,
      <<game_dir \o <<"start.bat">>, "old">> }

FreshDisk == MkFS(SourceFiles)
StaleDisk == MkFS(SourceFiles \cup StaleFiles)

\* the destination tree: everything under the game directory
DestTree(f) == SubTree(f, game_dir)

\* ---------------------------------------------------------------- copying
\* An I/O error is a pair <<source entry, call>>: the call ("rm" for
\* shutil.rmtree / unlink, "copy" for shutil.copy2 / shutil.copytree) raises
\* when it handles that entry.  F is the set of errors that strike a call.

\* mutant of ReplaceTree: the tree is copied over what is there
ReplaceTree_Merge(f, item, target, F) ==
    IF <<item, "copy">> \in F THEN [f |-> f, ok |-> FALSE]
    ELSE [f |-> CopyTree(f, item, target), ok |-> TRUE]

\* if target.exists(): shutil.rmtree(target); shutil.copytree(item, target)
\* The result: the filesystem and whether no exception was raised.
ReplaceTree(f, item, target, F) ==
    IF Exists(f, target) /\ (IsFile(f, target) \/ <<item, "rm">> \in F)
    THEN [f |-> f, ok |-> FALSE]
    ELSE LET f1 == IF Exists(f, target) THEN RmTree(f, target) ELSE f
         IN  IF <<item, "copy">> \in F
             THEN [f |-> f1, ok |-> FALSE]
             ELSE [f |-> CopyTree(f1, item, target), ok |-> TRUE]

\* shutil.copy2(item, target): raises on an I/O error and when item is no file
CopyFile(f, item, target, F) ==
    IF <<item, "copy">> \in F \/ ~IsFile(f, item)
    THEN [f |-> f, ok |-> FALSE]
    ELSE [f |-> Copy2(f, item, target), ok |-> TRUE]

\* one entry of a copy loop: a file, a directory, or neither
CopyEntry(f, item, target, F) ==
    IF IsFile(f, item) THEN CopyFile(f, item, target, F)
    ELSE IF IsDir(f, item) THEN ReplaceTree(f, item, target, F)
    ELSE [f |-> f, ok |-> TRUE]

\* mutant of copy_item: an entry already at the destination is left alone
copy_item_KeepExisting(f, src, dst_dir, F) ==
    LET target == dst_dir \o <<Name(src)>>
    IN  IF Exists(f, target) THEN [f |-> f, ok |-> TRUE]
        ELSE IF IsDir(f, src) THEN ReplaceTree(f, src, target, F)
        ELSE CopyFile(f, src, target, F)

copy_item(f, src, dst_dir, F) ==
    LET target == dst_dir \o <<Name(src)>>
    IN  IF IsDir(f, src) THEN ReplaceTree(f, src, target, F)
        ELSE CopyFile(f, src, target, F)

\* the sub-roots of a structured mod
RootNames == {"Mods", "Plugins", "UserLibs"}

\* find_subdir_case_insensitive: the subdirectories it can return (the first
\* match in iteration order); none when the set is empty
find_subdir_case_insensitive(f, parent, name) ==
    IF ~Exists(f, parent) THEN {}
    ELSE {q \in IterDir(f, parent) : IsDir(f, q) /\ Lower(Name(q)) = Lower(name)}

\* the iteration orders a call can meet: for each root the subdirectory found, or None
SubdirPicks(f, mod_path) ==
    { sub \in [RootNames -> {None} \cup IterDir(f, mod_path)] :
        \A r \in RootNames :
            LET c == find_subdir_case_insensitive(f, mod_path, r)
            IN  IF c = {} THEN sub[r] = None ELSE sub[r] \in c }

\* for item in subdir.iterdir(): try: copy ... except: warn
RECURSIVE CopyItems(_, _, _, _)
\* mutant of CopyItems: the loop ends at the first entry whose copy fails
CopyItems_StopAtFailure(f, items, dst, F) ==
    IF items = {} THEN f
    ELSE LET item == CHOOSE i \in items : TRUE
             r == CopyEntry(f, item, dst \o <<Name(item)>>, F)
         IN  IF r.ok THEN CopyItems(r.f, items \ {item}, dst, F) ELSE r.f

CopyItems(f, items, dst, F) ==
    IF items = {} THEN f
    ELSE LET item == CHOOSE i \in items : TRUE
         IN  CopyItems(CopyEntry(f, item, dst \o <<Name(item)>>, F).f,
                       items \ {item}, dst, F)

\* mutant of RootDst: Plugins and UserLibs are made inside the mods directory
RootDst_Nested(dst_mods_dir, r) ==
    IF r = "Mods" THEN dst_mods_dir ELSE dst_mods_dir \o <<r>>

\* where the items of a root go: Mods/* into dst_mods_dir, the others beside it
RootDst(dst_mods_dir, r) ==
    IF r = "Mods" THEN dst_mods_dir ELSE Parent(dst_mods_dir) \o <<r>>

\* mutant of CopyRoot: the items of every folder that matches the root are copied
CopyRoot_AllMatches(f, sub, dst_mods_dir, r, F) ==
    IF sub[r] = None THEN f
    ELSE LET f1 == IF r = "Mods" THEN f ELSE MkDirs(f, RootDst(dst_mods_dir, r))
             all == UNION { IterDir(f1, d)
                            : d \in find_subdir_case_insensitive(f1, Parent(sub[r]), r) }
         IN  CopyItems(f1, all, RootDst(dst_mods_dir, r), F)

\* one root of copy_structured_mod
CopyRoot(f, sub, dst_mods_dir, r, F) ==
    IF sub[r] = None THEN f
    ELSE LET f1 == IF r = "Mods" THEN f ELSE MkDirs(f, RootDst(dst_mods_dir, r))
         IN  CopyItems(f1, IterDir(f1, sub[r]), RootDst(dst_mods_dir, r), F)

copy_structured_mod(f, mod_path, dst_mods_dir, sub, F) ==
    IF ~Exists(f, mod_path) THEN f
    ELSE CopyRoot(CopyRoot(CopyRoot(f, sub, dst_mods_dir, "Mods", F),
                           sub, dst_mods_dir, "Plugins", F),
                  sub, dst_mods_dir, "UserLibs", F)

\* has_structure of copy_mod_item
HasStructure(f, mod_path) ==
    \E r \in RootNames : find_subdir_case_insensitive(f, mod_path, r) # {}

\* has_existing of copy_mod_item: some item of the Mods root is at the destination
HasExisting(f, sub, dst_dir) ==
    /\ sub["Mods"] # None
    /\ \E item \in IterDir(f, sub["Mods"]) : Exists(f, dst_dir \o <<Name(item)>>)

\* copy_mod_item: the filesystem after the call and the value returned
copy_mod_item(f, mod_path, dst_dir, skip_if_exists, sub, F) ==
    LET target == dst_dir \o <<Name(mod_path)>>
    IN  IF ~Exists(f, mod_path) THEN [f |-> f, ret |-> FALSE]
        ELSE IF IsFile(f, mod_path) THEN
            IF skip_if_exists /\ Exists(f, target) THEN [f |-> f, ret |-> FALSE]
            ELSE LET r == CopyFile(f, mod_path, target, F)
                 IN  [f |-> r.f, ret |-> r.ok]
        ELSE IF HasStructure(f, mod_path) THEN
            IF skip_if_exists /\ HasExisting(f, sub, dst_dir)
            THEN [f |-> f, ret |-> FALSE]
            ELSE [f |-> copy_structured_mod(f, mod_path, dst_dir, sub, F),
                  ret |-> TRUE]
        ELSE
            IF skip_if_exists /\ Exists(f, target) THEN [f |-> f, ret |-> FALSE]
            ELSE LET r == ReplaceTree(f, mod_path, target, F)
                 IN  [f |-> r.f, ret |-> r.ok]

\* the I/O errors that can strike copying item onto target
EntryPoints(f, item, target) ==
    {<<item, "copy">>} \cup
    (IF IsDir(f, item) /\ IsDir(f, target) THEN {<<item, "rm">>} ELSE {})

\* the I/O errors that can strike a call of copy_mod_item
CopyPoints(f, mod_path, dst_dir, skip_if_exists, sub) ==
    LET target == dst_dir \o <<Name(mod_path)>>
    IN  IF ~Exists(f, mod_path) THEN {}
        ELSE IF IsDir(f, mod_path) /\ HasStructure(f, mod_path) THEN
            IF skip_if_exists /\ HasExisting(f, sub, dst_dir) THEN {}
            ELSE UNION { UNION { EntryPoints(f, item, RootDst(dst_dir, r) \o <<Name(item)>>)
                                 : item \in IterDir(f, sub[r]) }
                         : r \in {x \in RootNames : sub[x] # None} }
        ELSE IF skip_if_exists /\ Exists(f, target) THEN {}
        ELSE EntryPoints(f, mod_path, target)

\* --------------------------------------------------------------- inputs
\* --mod entries: relative to --project-dir or absolute
ModChoices ==
    << <<"ext", "Dep.dll">>, <<"ext", "MyMod.dll">>, Ext(<<"Flat">>),
       <<"ext", "AddonA">>, Ext(<<"AddonP">>), <<"ext", "AddonE">>,
       <<"ext", "Nope.dll">> >>

\* the --mod lists: up to MaxMods entries that follow each other in ModChoices
ModLists ==
    { SubSeq(ModChoices, w[1], w[2])
      : w \in { v \in (1..Len(ModChoices)) \X (0..Len(ModChoices)) :
                  v[2] >= v[1] - 1 /\ v[2] - v[1] + 1 <= MaxMods } }

\* --wait-seconds, in tenths of a second
WaitChoices == (0 - SafetyMargin - 1)..MaxWait

\* an invocation: the arguments of main, and what it finds around it
\*   windows      os.name == "nt"
\*   self_match   the script's own command line contains the executable's name
\*   wineserver   _find_wineserver finds a wineserver
\*   stale        the game directory holds older copies
\*   game_up      the game runs when the first invocation starts
\*   lower_first  Path.iterdir lists a lower-case folder name before its
\*                namesakes in other letter cases
\*   environ      os.environ
\* os.environ without and with a WINEPREFIX of its own
PlainEnviron == [n \in {"PATH"} |-> <<"bin">>]
PrefixedEnviron ==
    [n \in {"PATH", "WINEPREFIX"} |->
        IF n = "PATH" THEN <<"bin">> ELSE <<"/", "home", "pfx">>]

Default ==
    [ target |-> target_present, mod |-> <<>>, mp_mod |-> None, mp_starter |-> None,
      s1api_path |-> None, unity_explorer_path |-> None, debug |-> FALSE,
      clean |-> FALSE, no_launch |-> TRUE, force_copy |-> FALSE,
      wait_seconds |-> 0, wine_binary |-> wine_present,
      windows |-> TRUE, self_match |-> FALSE, wineserver |-> FALSE,
      stale |-> FALSE, game_up |-> FALSE, lower_first |-> FALSE,
      wine_prefix |-> None, environ |-> PlainEnviron ]

\* hosts: Windows, or another system with the script's command line matching or not
Hosts == { <<TRUE, FALSE>>, <<FALSE, FALSE>>, <<FALSE, TRUE>> }

ValidationInputs ==
    { [Default EXCEPT !.target = t, !.mp_mod = m, !.mp_starter = s,
                      !.windows = h[1], !.self_match = h[2], !.wine_binary = w,
                      !.mod = <<Ext(<<"AddonA">>)>>, !.clean = c, !.stale = c,
                      !.no_launch = FALSE]
      : t \in {target_present, target_missing},
        m \in {None, EmptyStr, Ext(<<"Dep.dll">>)},
        s \in {None, EmptyStr, Ext(<<"start.bat">>)},
        h \in Hosts, w \in {wine_present, wine_missing}, c \in BOOLEAN }

ProcessInputs ==
    { [Default EXCEPT !.game_up = g, !.wait_seconds = w, !.windows = h[1],
                      !.self_match = h[2], !.wineserver = ws, !.no_launch = nl]
      : g \in BOOLEAN, w \in WaitChoices, h \in Hosts, ws \in BOOLEAN,
        nl \in BOOLEAN }

CopyInputs ==
    { [Default EXCEPT !.mod = m, !.force_copy = fc, !.clean = c, !.stale = st]
      : m \in ModLists, fc \in BOOLEAN, c \in BOOLEAN, st \in BOOLEAN }

MultiplayerInputs ==
    { [Default EXCEPT !.mp_mod = m, !.mp_starter = s, !.force_copy = fc,
                      !.stale = st, !.no_launch = nl]
      : m \in {Ext(<<"Dep.dll">>), Ext(<<"AddonA">>), Ext(<<"MyMod.dll">>),
               Ext(<<"Nope.dll">>)},
        s \in {Ext(<<"start.bat">>), Ext(<<"nope.bat">>)},
        fc \in BOOLEAN, st \in BOOLEAN, nl \in BOOLEAN }

LibraryInputs ==
    { [Default EXCEPT !.s1api_path = a, !.unity_explorer_path = u,
                      !.force_copy = fc, !.stale = st, !.clean = c]
      : a \in {None, EmptyStr, Ext(<<"AddonP">>), Ext(<<"MyMod.dll">>)},
        u \in {None, Ext(<<"Flat">>), Ext(<<"Nope.dll">>)},
        fc \in BOOLEAN, st \in BOOLEAN, c \in BOOLEAN }

\* an add-on with two folders for one root, in either iteration order
CaseInputs ==
    { [Default EXCEPT !.mod = <<Ext(<<"AddonM">>)>>, !.lower_first = lf,
                      !.force_copy = fc]
      : lf \in BOOLEAN, fc \in BOOLEAN }

\* launches: single-player and multiplayer, with and without --debug, on
\* Windows and elsewhere, with a starter that is there or not
LaunchInputs ==
    { [Default EXCEPT !.mp_mod = m[1], !.mp_starter = m[2], !.debug = d,
                      !.no_launch = nl, !.windows = w, !.stale = st]
      : m \in { <<None, None>>, <<Ext(<<"Dep.dll">>), Ext(<<"start.bat">>)>>,
                <<Ext(<<"Dep.dll">>), Ext(<<"nope.bat">>)>> },
        d \in BOOLEAN, nl \in BOOLEAN, w \in BOOLEAN, st \in BOOLEAN }

\* a built mod that is a folder
FolderTargetInputs ==
    { [Default EXCEPT !.target = Ext(<<"Flat">>), !.stale = st, !.clean = c]
      : st \in BOOLEAN, c \in BOOLEAN }

\* single-player launches with and without --wine-prefix, in either environment
EnvInputs ==
    { [Default EXCEPT !.no_launch = FALSE, !.windows = w, !.wine_prefix = wp,
                      !.environ = e, !.debug = d]
      : w \in BOOLEAN, wp \in {None, EmptyStr, <<"/", "opt", "pfx">>},
        e \in {PlainEnviron, PrefixedEnviron}, d \in BOOLEAN }

Inputs ==
    ValidationInputs \cup ProcessInputs \cup CopyInputs \cup MultiplayerInputs
        \cup LibraryInputs \cup CaseInputs \cup LaunchInputs
        \cup FolderTargetInputs \cup EnvInputs

\* ------------------------------------------------------------------ state
VARIABLES
    inp,            \* the invocation (arguments and surroundings), fixed
    fs,             \* the filesystem
    pc,             \* where main stands
    run,            \* which invocation this is
    game,           \* "running" or "gone": the game process
    clock,          \* time.time(), in tenths of a second since main started
    deadline,       \* wait_for_exit's deadline
    total_copied,   \* main's total_copied
    idx,            \* position in copy_user_mods' loop over valid_mods
    faults,         \* I/O errors injected so far
    spawned,        \* the processes started by this invocation
    trace,          \* the stages this invocation has completed, in order
    last,           \* the latest clean or copy call: its arguments, the
                    \* filesystem and the count before it, and its result
    term,           \* what kill_processes found and did
    hist            \* the summaries of the invocations that reached the end

vars == <<inp, fs, pc, run, game, clock, deadline, total_copied, idx, faults,
          spawned, trace, last, term, hist>>

\* main: the values derived from the arguments
base == project_dir
mods_dir_path == mods_dir
target_path == inp.target
exe_path_obj == exe_path
exe_name == Name(exe_path_obj)
use_wine == ~inp.windows
multiplayer == Truthy(inp.mp_mod) /\ Truthy(inp.mp_starter)

NoSub == [r \in RootNames |-> None]
NoCall(f) ==
    [ stage |-> "none", src |-> None, dst |-> None, skip |-> FALSE, sub |-> NoSub,
      pre |-> f, ret |-> FALSE, F |-> {}, before |-> 0 ]
NoTerm ==
    [ called |-> FALSE, game_at_call |-> FALSE, grace |-> FALSE, polls |-> 0,
      sleeps |-> 0, outcome |-> "none" ]

\* the sets of I/O errors that may strike now, among the possible ones
FaultSets(points) == {F \in SUBSET points : Cardinality(F) <= MaxFaults - faults}

Terminal == {"done", "fatal", "crashed", "killed"}

Init ==
    /\ inp \in Inputs
    /\ fs = (IF inp.stale THEN StaleDisk ELSE FreshDisk)
    /\ pc = "start"
    /\ run = 1
    /\ game = (IF inp.game_up THEN "running" ELSE "gone")
    /\ clock = 0
    /\ deadline = 0
    /\ total_copied = 0
    /\ idx = 1
    /\ faults = 0
    /\ spawned = <<>>
    /\ trace = <<>>
    /\ last = NoCall(fs)
    /\ term = NoTerm
    /\ hist = <<>>

\* a stage has ended: note it, and whether it changed the filesystem
Logged(st, f) == Append(trace, [st |-> st, wrote |-> f # fs])

\* ------------------------------------------------------------ validation
\* mutant of TargetMissing: the directory of the built mod is looked for
TargetMissing_ParentOnly == ~Exists(fs, Parent(target_path))

\* Each check that fails ends main with typer.Exit(code=1): pc = "fatal".
\* if not target_path.exists(): raise typer.Exit(code=1)
TargetMissing == ~Exists(fs, target_path)

ValidateTarget ==
    /\ pc = "start"
    /\ pc' = (IF TargetMissing THEN "fatal" ELSE "check_mp")
    /\ trace' = (IF TargetMissing THEN Logged("no_target", fs) ELSE trace)
    /\ UNCHANGED <<inp, fs, run, game, clock, deadline, total_copied, idx, faults,
                   spawned, last, term, hist>>

\* mutant of MultiplayerMismatch: the second check is forgotten
MultiplayerMismatch_ModOnly == Truthy(inp.mp_mod) /\ ~Truthy(inp.mp_starter)

\* the two pairing checks of --mp-mod and --mp-starter
MultiplayerMismatch ==
    \/ Truthy(inp.mp_mod) /\ ~Truthy(inp.mp_starter)
    \/ Truthy(inp.mp_starter) /\ ~Truthy(inp.mp_mod)

ValidateMultiplayer ==
    /\ pc = "check_mp"
    /\ pc' = (IF MultiplayerMismatch THEN "fatal" ELSE "check_wine")
    /\ trace' = (IF MultiplayerMismatch THEN Logged("mp_mismatch", fs) ELSE trace)
    /\ UNCHANGED <<inp, fs, run, game, clock, deadline, total_copied, idx, faults,
                   spawned, last, term, hist>>

\* mutant of WineMissing: the binary is looked for on every host
WineMissing_AnyHost == ~Exists(fs, inp.wine_binary)

\* if use_wine: if not Path(wine_binary).exists(): raise typer.Exit(code=1)
WineMissing == use_wine /\ ~Exists(fs, inp.wine_binary)

ValidateWine ==
    /\ pc = "check_wine"
    /\ pc' = (IF WineMissing THEN "fatal" ELSE "ensure_dir")
    /\ trace' = (IF WineMissing THEN Logged("no_wine", fs) ELSE trace)
    /\ UNCHANGED <<inp, fs, run, game, clock, deadline, total_copied, idx, faults,
                   spawned, last, term, hist>>

\* ensure_dir(mods_dir_path)
ensure_dir(f, path) == MkDirs(f, path)

\* mutant of EnsureDir: main goes on to the clean without kill_processes
EnsureDir_NoKill ==
    /\ pc = "ensure_dir"
    /\ fs' = ensure_dir(fs, mods_dir_path)
    /\ trace' = Logged("ensure_dir", fs')
    /\ pc' = "clean"
    /\ UNCHANGED <<inp, run, game, clock, deadline, total_copied, idx, faults,
                   spawned, last, term, hist>>

EnsureDir ==
    /\ pc = "ensure_dir"
    /\ fs' = ensure_dir(fs, mods_dir_path)
    /\ trace' = Logged("ensure_dir", fs')
    /\ pc' = "kill"
    /\ UNCHANGED <<inp, run, game, clock, deadline, total_copied, idx, faults,
                   spawned, last, term, hist>>

\* ----------------------------------------------------------- termination
\* is_running: tasklist by image name on Windows; elsewhere pgrep -a -f exe_name,
\* which matches every command line that contains the name
is_running ==
    IF inp.windows THEN game = "running"
    ELSE game = "running" \/ inp.self_match

\* pkill -f exe_name signals every process whose command line contains the name
PkillHitsScript == ~inp.windows /\ inp.self_match

\* wineserver -k is sent, and followed by time.sleep(0.5)
GraceSleep == ~inp.windows /\ inp.wineserver

\* wait_for_exit: deadline = time.time() + wait_seconds + 2.0
Deadline(now) == now + inp.wait_seconds + SafetyMargin

\* kill_processes up to the call of wait_for_exit: taskkill, or wineserver -k
\* and pkill.  The game may or may not die of it at once.
KillProcesses ==
    /\ pc = "kill"
    /\ \E dies \in BOOLEAN :
         game' = (IF dies THEN "gone" ELSE game)
    /\ clock' = (IF GraceSleep THEN clock + GraceDelay ELSE clock)
    /\ deadline' = Deadline(clock')
    /\ term' = [ called |-> TRUE, game_at_call |-> (game = "running"),
                 grace |-> GraceSleep, polls |-> 0, sleeps |-> 0,
                 outcome |-> "none" ]
    /\ pc' = (IF PkillHitsScript THEN "killed" ELSE "wait")
    /\ trace' = Logged("kill", fs)
    /\ UNCHANGED <<inp, fs, run, total_copied, idx, faults, spawned, last, hist>>

\* mutant of InTime: one more poll is made at the deadline itself
InTime_Inclusive == clock <= deadline

\* while time.time() < deadline
InTime == clock < deadline

\* wait_for_exit: a poll that finds the process gone
PollStopped ==
    /\ pc = "wait"
    /\ InTime
    /\ ~is_running
    /\ term' = [term EXCEPT !.polls = @ + 1, !.outcome = "stopped"]
    /\ trace' = Logged("wait_end", fs)
    /\ pc' = "clean"
    /\ UNCHANGED <<inp, fs, run, game, clock, deadline, total_copied, idx, faults,
                   spawned, last, hist>>

\* wait_for_exit: a poll that finds the process, and time.sleep(0.2), during
\* which the game may exit
PollSleep ==
    /\ pc = "wait"
    /\ InTime
    /\ is_running
    /\ term' = [term EXCEPT !.polls = @ + 1, !.sleeps = @ + 1]
    /\ clock' = clock + PollInterval
    /\ \E exits \in BOOLEAN :
         game' = (IF exits THEN "gone" ELSE game)
    /\ UNCHANGED <<inp, fs, pc, run, deadline, total_copied, idx, faults, spawned,
                   trace, last, hist>>

\* wait_for_exit: the deadline has passed: warn "may still be running"
WaitTimeout ==
    /\ pc = "wait"
    /\ ~InTime
    /\ term' = [term EXCEPT !.outcome = "still_running"]
    /\ trace' = Logged("wait_end", fs)
    /\ pc' = "clean"
    /\ UNCHANGED <<inp, fs, run, game, clock, deadline, total_copied, idx, faults,
                   spawned, last, hist>>

\* ------------------------------------------------------------------ clean
\* mutant of clean_mods_dir: only the files are removed, the folders stay
clean_mods_dir_FilesOnly(f, d, F) ==
    IF ~Exists(f, d) THEN f
    ELSE LET gone == {item \in IterDir(f, d) : IsFile(f, item) /\ <<item, "rm">> \notin F}
         IN  [q \in {r \in DOMAIN f : \A item \in gone : ~IsPrefix(item, r)} |-> f[q]]

\* clean_mods_dir: every entry of the mods directory is removed, except those
\* whose removal raises
clean_mods_dir(f, d, F) ==
    IF ~Exists(f, d) THEN f
    ELSE LET gone == {item \in IterDir(f, d) : <<item, "rm">> \notin F}
         IN  [q \in {r \in DOMAIN f : \A item \in gone : ~IsPrefix(item, r)} |-> f[q]]

CleanModsDir ==
    /\ pc = "clean"
    /\ inp.clean
    /\ \E F \in FaultSets({<<item, "rm">> : item \in IterDir(fs, mods_dir_path)}) :
         /\ fs' = clean_mods_dir(fs, mods_dir_path, F)
         /\ faults' = faults + Cardinality(F)
         /\ last' = [NoCall(fs) EXCEPT !.stage = "clean", !.F = F,
                                       !.before = total_copied]
    /\ trace' = Logged("clean", fs')
    /\ pc' = "user"
    /\ UNCHANGED <<inp, run, game, clock, deadline, total_copied, idx, spawned,
                   term, hist>>

SkipClean ==
    /\ pc = "clean"
    /\ ~inp.clean
    /\ pc' = "user"
    /\ UNCHANGED <<inp, fs, run, game, clock, deadline, total_copied, idx, faults,
                   spawned, trace, last, term, hist>>

\* ----------------------------------------------------------------- copies
\* skip_if_exists=not force_copy
SkipIfExists == ~inp.force_copy

\* for item in parent.iterdir(): the matches that iteration can meet first.
\* An unchanged directory is listed in one order.
FirstMatch(parent, name) ==
    LET c == find_subdir_case_insensitive(fs, parent, name)
        pref == {q \in c : (Name(q) = Lower(Name(q))) = inp.lower_first}
    IN  IF pref = {} THEN c ELSE pref

\* the roots the calls of find_subdir_case_insensitive return for mod_path
Picks(mod_path) ==
    { sub \in SubdirPicks(fs, mod_path) :
        \A r \in RootNames : sub[r] # None => sub[r] \in FirstMatch(mod_path, r) }

\* a call copy_mod_item(mod_path, mods_dir_path, skip_if_exists=not force_copy)
\* whose result is added to the count
CallCopyModItem(stage, mod_path) ==
    \E sub \in Picks(mod_path) :
    \E F \in FaultSets(CopyPoints(fs, mod_path, mods_dir_path, SkipIfExists, sub)) :
        LET r == copy_mod_item(fs, mod_path, mods_dir_path, SkipIfExists, sub, F)
        IN  /\ fs' = r.f
            /\ faults' = faults + Cardinality(F)
            /\ total_copied' = (IF r.ret THEN total_copied + 1 ELSE total_copied)
            /\ last' = [ stage |-> stage, src |-> mod_path, dst |-> mods_dir_path,
                         skip |-> SkipIfExists, sub |-> sub, pre |-> fs,
                         ret |-> r.ret, F |-> F, before |-> total_copied ]
            /\ trace' = Logged(stage, fs')

\* copy_user_mods: (base / mod_entry).resolve() unless mod_entry is absolute
ResolveMod(mod_entry) ==
    IF ~IsAbsolute(mod_entry) THEN Join(base, mod_entry) ELSE mod_entry

OnDisk(p) == Exists(fs, p)

\* copy_user_mods: the entries that exist, in the order given
valid_mods ==
    SelectSeq([k \in 1..Len(inp.mod) |-> ResolveMod(inp.mod[k])], OnDisk)

\* copy_user_mods with nothing to copy
NoUserMods ==
    /\ pc = "user"
    /\ Len(valid_mods) = 0
    /\ pc' = "mp"
    /\ UNCHANGED <<inp, fs, run, game, clock, deadline, total_copied, idx, faults,
                   spawned, trace, last, term, hist>>

\* copy_user_mods: one turn of the loop over valid_mods
CopyUserMod ==
    /\ pc = "user"
    /\ idx <= Len(valid_mods)
    /\ CallCopyModItem("user", valid_mods[idx])
    /\ idx' = (IF idx = Len(valid_mods) THEN 1 ELSE idx + 1)
    /\ pc' = (IF idx = Len(valid_mods) THEN "mp" ELSE "user")
    /\ UNCHANGED <<inp, run, game, clock, deadline, spawned, term, hist>>

\* if multiplayer: ... is not taken
SkipMultiplayer ==
    /\ pc = "mp"
    /\ ~multiplayer
    /\ pc' = "s1api"
    /\ UNCHANGED <<inp, fs, run, game, clock, deadline, total_copied, idx, faults,
                   spawned, trace, last, term, hist>>

\* copy_multiplayer_mods, first half: the multiplayer mod
CopyMultiplayerMod ==
    /\ pc = "mp"
    /\ multiplayer
    /\ IF Exists(fs, inp.mp_mod)
       THEN CallCopyModItem("mp_mod", inp.mp_mod)
       ELSE /\ trace' = Logged("mp_mod", fs)
            /\ UNCHANGED <<fs, faults, total_copied, last>>
    /\ pc' = "mp_starter"
    /\ UNCHANGED <<inp, run, game, clock, deadline, idx, spawned, term, hist>>

\* mutant of StarterDst: the starter is put into the mods directory
StarterDst_InsideMods(starter_src) == mods_dir_path \o <<Name(starter_src)>>

\* where the starter goes: beside the mods directory
StarterDst(starter_src) == Parent(mods_dir_path) \o <<Name(starter_src)>>

\* if not starter_dst.exists() or force_copy
StarterWanted(f, starter_dst) == ~Exists(f, starter_dst) \/ inp.force_copy

\* copy_multiplayer_mods, second half: the starter
CopyMultiplayerStarter ==
    /\ pc = "mp_starter"
    /\ LET starter_src == inp.mp_starter
           starter_dst == StarterDst(starter_src)
           wanted == Exists(fs, starter_src) /\ StarterWanted(fs, starter_dst)
       IN  \E F \in FaultSets(IF wanted THEN {<<starter_src, "copy">>} ELSE {}) :
             LET r == IF wanted THEN CopyFile(fs, starter_src, starter_dst, F)
                      ELSE [f |-> fs, ok |-> FALSE]
             IN  /\ fs' = r.f
                 /\ faults' = faults + Cardinality(F)
                 /\ total_copied' = (IF r.ok THEN total_copied + 1 ELSE total_copied)
                 /\ last' = [ stage |-> "mp_starter", src |-> starter_src,
                              dst |-> Parent(mods_dir_path), skip |-> SkipIfExists,
                              sub |-> NoSub, pre |-> fs, ret |-> r.ok, F |-> F,
                              before |-> total_copied ]
                 /\ trace' = Logged("mp_starter", fs')
    /\ pc' = "s1api"
    /\ UNCHANGED <<inp, run, game, clock, deadline, idx, spawned, term, hist>>

\* copy_library_mods, first half: if s1api_path: ...
CopyS1API ==
    /\ pc = "s1api"
    /\ IF Truthy(inp.s1api_path)
       THEN CallCopyModItem("s1api", inp.s1api_path)
       ELSE UNCHANGED <<fs, faults, total_copied, last, trace>>
    /\ pc' = "unity"
    /\ UNCHANGED <<inp, run, game, clock, deadline, idx, spawned, term, hist>>

\* copy_library_mods, second half: if unity_explorer_path: ...
CopyUnityExplorer ==
    /\ pc = "unity"
    /\ IF Truthy(inp.unity_explorer_path)
       THEN CallCopyModItem("unity", inp.unity_explorer_path)
       ELSE UNCHANGED <<fs, faults, total_copied, last, trace>>
    /\ pc' = "built"
    /\ UNCHANGED <<inp, run, game, clock, deadline, idx, spawned, term, hist>>

\* copy_item(target_path, mods_dir_path); total_copied += 1.  The call is not
\* inside a try: an I/O error ends main with a traceback.
CopyBuiltMod ==
    /\ pc = "built"
    /\ \E F \in FaultSets(EntryPoints(fs, target_path,
                                       mods_dir_path \o <<Name(target_path)>>)) :
         LET r == copy_item(fs, target_path, mods_dir_path, F)
         IN  /\ fs' = r.f
             /\ faults' = faults + Cardinality(F)
             /\ total_copied' = (IF r.ok THEN total_copied + 1 ELSE total_copied)
             /\ pc' = (IF r.ok THEN "launch" ELSE "crashed")
             /\ last' = [ stage |-> "built", src |-> target_path,
                          dst |-> mods_dir_path, skip |-> FALSE, sub |-> NoSub,
                          pre |-> fs, ret |-> r.ok, F |-> F,
                          before |-> total_copied ]
             /\ trace' = Logged("built", fs')
    /\ UNCHANGED <<inp, run, game, clock, deadline, idx, spawned, term, hist>>

\* ----------------------------------------------------------------- launch
\* the summary line: "Copied {total_copied} items total"
Summary(started) ==
    [ run |-> run, tree |-> DestTree(fs), total |-> total_copied,
      spawned |-> started ]

\* if no_launch: ... return
SkipLaunch ==
    /\ pc = "launch"
    /\ inp.no_launch
    /\ pc' = "done"
    /\ hist' = Append(hist, Summary(spawned))
    /\ UNCHANGED <<inp, fs, run, game, clock, deadline, total_copied, idx, faults,
                   spawned, trace, last, term>>

\* a word of a command line that is not a path
Word(w) == <<w>>

\* launch_args: if debug: launch_args.extend(["--melonloader.debug"])
launch_args == IF inp.debug THEN <<Word("--melonloader.debug")>> ELSE <<>>

\* launch_game: cmd = [wine_binary, str(exe_path), *args] or [str(exe_path), *args]
launch_game(exe, args, wine, wine_binary) ==
    IF wine THEN <<wine_binary, exe>> \o args ELSE <<exe>> \o args

\* env[name] = value
SetEnv(env, name, value) ==
    [n \in DOMAIN env \cup {name} |-> IF n = name THEN value ELSE env[n]]

\* launch_env with WINEDLLOVERRIDES set under the same condition as WINEPREFIX
launch_env_PrefixGated(environ, wine, wine_prefix) ==
    IF wine /\ Truthy(wine_prefix)
    THEN SetEnv(SetEnv(environ, "WINEPREFIX", wine_prefix),
                "WINEDLLOVERRIDES", Word("version=n,b"))
    ELSE environ

\* launch_game: env = os.environ.copy(); with wine, WINEPREFIX is set when
\* wine_prefix is given and WINEDLLOVERRIDES always
launch_env(environ, wine, wine_prefix) ==
    IF wine
    THEN SetEnv(IF Truthy(wine_prefix) THEN SetEnv(environ, "WINEPREFIX", wine_prefix)
                ELSE environ,
                "WINEDLLOVERRIDES", Word("version=n,b"))
    ELSE environ

\* subprocess.Popen(cmd, cwd=..., env=...): the process started.  It is
\* detached when start_new_session or CREATE_NEW_PROCESS_GROUP is given; the
\* Popen object is dropped, the process is not waited for.
Popen(cmd, cwd, env, new_group) ==
    [cmd |-> cmd, cwd |-> cwd, env |-> env, detached |-> new_group,
     waited |-> FALSE]

\* launch_game: subprocess.Popen of the game, natively or through wine
LaunchGame ==
    /\ pc = "launch"
    /\ ~inp.no_launch
    /\ ~multiplayer
    /\ spawned' = Append(spawned,
            Popen(launch_game(exe_path_obj, launch_args, use_wine, inp.wine_binary),
                  Parent(exe_path_obj),
                  launch_env(inp.environ, use_wine, inp.wine_prefix),
                  FALSE))
    /\ game' = "running"
    /\ trace' = Logged("launch", fs)
    /\ pc' = "done"
    /\ hist' = Append(hist, Summary(spawned'))
    /\ UNCHANGED <<inp, fs, run, clock, deadline, total_copied, idx, faults, last,
                   term>>

\* starter_path = mods_dir_path.parent / Path(mp_starter).name
starter_path == Parent(mods_dir_path) \o <<Name(inp.mp_starter)>>

\* the command of the multiplayer launch:
\* ["cmd", "/k", str(starter_path), *launch_args] on Windows, [str(starter_path)] elsewhere
StarterCmd ==
    IF inp.windows THEN <<Word("cmd"), Word("/k"), starter_path>> \o launch_args
    ELSE <<starter_path>>

\* the multiplayer launch: cmd /k starter on Windows, the starter itself
\* elsewhere, where Popen raises when the file is not there.  The starter may
\* bring the game up.
LaunchStarter ==
    /\ pc = "launch"
    /\ ~inp.no_launch
    /\ multiplayer
    /\ IF inp.windows \/ Exists(fs, starter_path)
       THEN /\ spawned' = Append(spawned,
                    Popen(StarterCmd, Parent(mods_dir_path), inp.environ, TRUE))
            /\ \E up \in BOOLEAN :
                 game' = (IF up /\ Exists(fs, starter_path) THEN "running" ELSE game)
            /\ trace' = Logged("launch", fs)
            /\ pc' = "done"
            /\ hist' = Append(hist, Summary(spawned'))
       ELSE /\ pc' = "crashed"
            /\ UNCHANGED <<spawned, game, trace, hist>>
    /\ UNCHANGED <<inp, fs, run, clock, deadline, total_copied, idx, faults, last,
                   term>>

\* the script is invoked again, with the same arguments, on what it left
Restart ==
    /\ pc \in Terminal
    /\ run < MaxRuns
    /\ run' = run + 1
    /\ pc' = "start"
    /\ clock' = 0
    /\ deadline' = 0
    /\ total_copied' = 0
    /\ idx' = 1
    /\ spawned' = <<>>
    /\ trace' = <<>>
    /\ last' = NoCall(fs)
    /\ term' = NoTerm
    /\ UNCHANGED <<inp, fs, game, faults, hist>>

Next ==
    \/ ValidateTarget
    \/ ValidateMultiplayer
    \/ ValidateWine
    \/ EnsureDir
    \/ KillProcesses
    \/ PollStopped
    \/ PollSleep
    \/ WaitTimeout
    \/ CleanModsDir
    \/ SkipClean
    \/ NoUserMods
    \/ CopyUserMod
    \/ SkipMultiplayer
    \/ CopyMultiplayerMod
    \/ CopyMultiplayerStarter
    \/ CopyS1API
    \/ CopyUnityExplorer
    \/ CopyBuiltMod
    \/ SkipLaunch
    \/ LaunchGame
    \/ LaunchStarter
    \/ Restart

Spec == Init /\ [][Next]_vars

\* wait_for_exit runs on: the interpreter executes the loop's next statement,
\* and tasklist / pgrep and time.sleep(0.2) return
WaitRuns == WF_vars(PollStopped \/ PollSleep \/ WaitTimeout)

FairSpec == Spec /\ WaitRuns

\* ----------------------------------------------------------------- claims
\* the exit status main sets itself: typer.Exit(code=1) on a failed check
exit_code == IF pc = "fatal" THEN ExitFatal ELSE 0

\* the invocation has had no effect: the filesystem is as it found it, no
\* signal was sent, nothing was copied and nothing was started
NoEffect ==
    /\ last.stage = "none"
    /\ fs = last.pre
    /\ ~term.called
    /\ spawned = <<>>
    /\ total_copied = 0

\* the stages noted so far
Stages == {trace[k].st : k \in 1..Len(trace)}

\* C1: when the built mod's path does not exist at the start, the run ends in
\* the abort with a non-zero exit status and has had no effect at all: the
\* mods directory is not created, no signal is sent, nothing is cleaned,
\* copied or started.
C1_MissingTargetAborts ==
    (~Exists(fs, inp.target) /\ pc # "start") =>
        /\ pc = "fatal"
        /\ exit_code # 0
        /\ Stages = {"no_target"}
        /\ ~Exists(fs, mods_dir) \/ Exists(last.pre, mods_dir)
        /\ NoEffect

\* a run that found no built mod and stopped, on a disk without mods directory
C1_Witness ==
    /\ pc = "fatal"
    /\ ~Exists(fs, inp.target)
    /\ ~Exists(fs, mods_dir)
    /\ inp.mod # <<>>

\* an option counts as supplied when it is given and not empty
Supplied(s) == Truthy(s)
ExactlyOneSupplied == Supplied(inp.mp_mod) # Supplied(inp.mp_starter)

\* C2: with exactly one of --mp-mod and --mp-starter supplied the run aborts
\* with a non-zero exit status before any termination, clean, copy or launch;
\* with both or neither supplied the pairing check never aborts the run.
C2_MultiplayerPairing ==
    /\ (ExactlyOneSupplied /\ pc \notin {"start", "check_mp"}) =>
            /\ pc = "fatal"
            /\ exit_code # 0
            /\ NoEffect
    /\ ~ExactlyOneSupplied => "mp_mismatch" \notin Stages

\* the pairing check has stopped a run that was given the starter alone
C2_Witness ==
    /\ pc = "fatal"
    /\ Stages = {"mp_mismatch"}
    /\ ~Supplied(inp.mp_mod)
    /\ Supplied(inp.mp_starter)

\* C3: on a host that needs the compatibility layer, a compatibility binary
\* path that does not exist aborts the run with a non-zero exit status before
\* the mods directory is created and before any termination, copy or launch;
\* on a native host the binary is never checked and never aborts the run.
C3_CompatBinary ==
    /\ (~inp.windows /\ ~Exists(fs, inp.wine_binary)
            /\ pc \notin {"start", "check_mp", "check_wine"}) =>
            /\ pc = "fatal"
            /\ exit_code # 0
            /\ NoEffect
    /\ inp.windows => "no_wine" \notin Stages

\* the binary check has stopped a run whose built mod and pairing were in order
C3_Witness ==
    /\ pc = "fatal"
    /\ Stages = {"no_wine"}
    /\ ~inp.windows
    /\ Exists(fs, inp.target)
    /\ ~Exists(fs, mods_dir)

\* the place of a stage in the order terminate, clean, add-ons, multiplayer
\* pair, libraries, built mod, launch
Rank(st) ==
    CASE st = "ensure_dir" -> 0
      [] st = "kill" -> 1
      [] st = "wait_end" -> 2
      [] st = "clean" -> 3
      [] st = "user" -> 4
      [] st = "mp_mod" -> 5
      [] st = "mp_starter" -> 6
      [] st = "s1api" -> 7
      [] st = "unity" -> 8
      [] st = "built" -> 9
      [] st = "launch" -> 10
      [] OTHER -> 0 - 1

\* C4: the stages of a run happen in the order terminate, clean, user
\* add-ons, multiplayer pair, libraries, built mod, launch, one after the other;
\* the wait for the process has ended before any clean or copy writes to the
\* destination tree, the clean happens only when asked for, and the launch
\* comes only after the copy of the built mod.
C4_StageOrder ==
    /\ \A a, b \in 1..Len(trace) :
            a < b =>
                \/ Rank(trace[a].st) < Rank(trace[b].st)
                \/ trace[a].st = "user" /\ trace[b].st = "user"
    /\ \A b \in 1..Len(trace) :
            /\ (trace[b].wrote /\ trace[b].st # "ensure_dir") =>
                    /\ Rank(trace[b].st) \in 3..9
                    /\ \E a \in 1..(b - 1) : trace[a].st = "wait_end"
            /\ Rank(trace[b].st) >= 3 => \E a \in 1..(b - 1) : trace[a].st = "wait_end"
            /\ trace[b].st = "wait_end" => \E a \in 1..(b - 1) : trace[a].st = "kill"
            /\ trace[b].st = "clean" => inp.clean
            /\ trace[b].st = "launch" => \E a \in 1..(b - 1) : trace[a].st = "built"
    /\ spawned # <<>> => "launch" \in Stages

\* a finished run that cleaned, copied an add-on, the multiplayer pair and the
\* built mod, and launched
C4_Witness ==
    /\ pc = "done"
    /\ {"kill", "wait_end", "clean", "user", "mp_mod", "mp_starter", "built",
        "launch"} \subseteq Stages
    /\ \E k \in 1..Len(trace) : trace[k].st = "user" /\ trace[k].wrote

\* the stages that call copy_mod_item
ModItemStages == {"user", "mp_mod", "s1api", "unity"}

\* the latest step was a call of copy_mod_item, and fs is what it left
AfterModItem == last.stage \in ModItemStages

\* the roots found in the add-on of the latest call
LastRoots == {r \in RootNames : last.sub[r] # None}

\* the claimed home of each root's items: D/Mods, D/Plugins, D/UserLibs
ClaimedDst(r) ==
    CASE r = "Mods" -> <<"/", "game", "Mods">>
      [] r = "Plugins" -> <<"/", "game", "Plugins">>
      [] r = "UserLibs" -> <<"/", "game", "UserLibs">>

\* where the latest call's add-on belongs at the destination: a file or a flat
\* folder under its own name, each item of a structured tree under its root
LastMapping ==
    IF IsDir(last.pre, last.src) /\ LastRoots # {}
    THEN UNION { { <<item, ClaimedDst(r) \o <<Name(item)>> >>
                   : item \in IterDir(last.pre, last.sub[r]) }
                 : r \in LastRoots }
    ELSE { <<last.src, ClaimedDst("Mods") \o <<Name(last.src)>> >> }

\* the add-on of the latest call was already at the destination, all of it
LastPresent ==
    /\ LastMapping # {}
    /\ \A m \in LastMapping : Exists(last.pre, m[2])

\* the latest call has put the add-on at the destination
LastCopied ==
    \A m \in LastMapping :
        Exists(fs, m[2]) /\ SubTree(fs, m[2]) = SubTree(last.pre, m[1])

\* C5 (the claim as stated, for calls that meet no I/O error): for an add-on
\* of any layout that is already at the destination, copy_mod_item with
\* force copies and returns True, and without force skips, returns False
\* and leaves the filesystem as it was.
C5_SkipForceLaw ==
    (AfterModItem /\ last.F = {} /\ Exists(last.pre, last.src) /\ LastPresent) =>
        IF last.skip
        THEN ~last.ret /\ fs = last.pre
        ELSE last.ret /\ LastCopied

\* C6 (the claim as stated, for runs without --clean that meet no I/O error):
\* of two consecutive runs without force, the second leaves the destination
\* tree as the first left it and counts no copy but that of the built mod.
C6_Idempotent ==
    (~inp.force_copy /\ ~inp.clean /\ faults = 0) =>
        \A a, b \in 1..Len(hist) :
            hist[b].run = hist[a].run + 1 =>
                /\ hist[b].tree = hist[a].tree
                /\ hist[b].total = 1

\* where the built mod goes
built_dst == mods_dir_path \o <<Name(target_path)>>

\* C7: a run that gets past the copy of the built mod has copied it, with or
\* without force and whatever was at the destination: the mods directory
\* holds the built mod under its name, also when an add-on, multiplayer mod
\* or library of that name was copied earlier in the run, that copy is the
\* last one of the run, and the count is at least 1.
C7_BuiltModAlwaysCopied ==
    pc \in {"launch", "done"} =>
        /\ "built" \in Stages
        /\ \A k \in 1..Len(trace) : Rank(trace[k].st) \in 3..8 =>
               \E j \in (k + 1)..Len(trace) : trace[j].st = "built"
        /\ Exists(fs, built_dst)
        /\ SubTree(fs, built_dst) = SubTree(fs, target_path)
        /\ total_copied >= 1

\* a finished run without force on a disk that held an older copy, in which an
\* add-on named like the built mod was handled before it
C7_Witness ==
    /\ pc = "done"
    /\ ~inp.force_copy
    /\ inp.mod = <<(<<"ext", "MyMod.dll">>)>>
    /\ inp.stale
    /\ fs[built_dst] = "build"

\* C8: right after a clean in which every removal succeeded, the mods
\* directory exists and has no entry, whatever files and folders it held.
C8_CleanLaw ==
    (last.stage = "clean" /\ last.F = {}) =>
        /\ IsDir(fs, mods_dir_path)
        /\ IterDir(fs, mods_dir_path) = {}
        /\ \A q \in DOMAIN fs : IsPrefix(mods_dir_path, q) => q = mods_dir_path

\* a clean has emptied a mods directory that held files and a folder
C8_Witness ==
    /\ last.stage = "clean"
    /\ last.F = {}
    /\ \E q \in IterDir(last.pre, mods_dir_path) : IsDir(last.pre, q)
    /\ \E q \in IterDir(last.pre, mods_dir_path) : IsFile(last.pre, q)

\* C9 (the claim as stated, for calls that return): when the process is not
\* running as kill_processes is called, the call reports that it stopped,
\* never that it may still be running, and never sleeps between polls,
\* whatever the requested wait.
C9_NotRunningReturnsAtOnce ==
    (term.called /\ ~term.game_at_call /\ pc \notin {"wait", "killed"}) =>
        /\ term.outcome = "stopped"
        /\ term.sleeps = 0

\* C10: a copy of a structured add-on puts every item of its Mods root in the
\* mods directory, every item of its Plugins root in Plugins and every item
\* of its UserLibs root in UserLibs beside the mods directory; nothing else
\* is written: no item lands under another root's directory and no entry
\* named after the add-on's folder appears.
C10_StructuredFanOut ==
    (AfterModItem /\ last.ret /\ last.F = {}
        /\ IsDir(last.pre, last.src) /\ LastRoots # {}) =>
        /\ LastCopied
        /\ \A q \in DOMAIN fs :
              (q \notin DOMAIN last.pre \/ fs[q] # last.pre[q]) =>
                  \/ \E m \in LastMapping : IsPrefix(m[2], q)
                  \/ \E r \in LastRoots : q = ClaimedDst(r)
        /\ \A q \in DOMAIN last.pre : q \in DOMAIN fs \/
              \E m \in LastMapping : IsPrefix(m[2], q)
        /\ last.dst \o <<Name(last.src)>> \notin DOMAIN fs \ DOMAIN last.pre

\* AddonA, with a file and a folder in Mods and a file in Plugins, has been
\* fanned out
C10_Witness ==
    /\ AfterModItem
    /\ last.ret
    /\ last.F = {}
    /\ last.src = Ext(<<"AddonA">>)
    /\ ~Exists(last.pre, game_dir \o <<"Plugins">>)
    /\ fs[game_dir \o <<"Plugins", "Bar.dll">>] = "bar"
    /\ fs[mods_dir \o <<"Pack", "p.txt">>] = "p"

\* 1 for TRUE, 0 for FALSE
Num(b) == IF b THEN 1 ELSE 0

\* the source paths the invocation names: add-ons, multiplayer pair, libraries
Sources ==
    {ResolveMod(inp.mod[k]) : k \in 1..Len(inp.mod)}
        \cup (IF multiplayer THEN {inp.mp_mod, inp.mp_starter} ELSE {})
        \cup {p \in {inp.s1api_path, inp.unity_explorer_path} : Truthy(p)}

MissingSources == {p \in Sources : ~Exists(fs, p)}

\* how many of the named sources exist
PresentCount ==
    Len(valid_mods)
        + Num(multiplayer /\ Exists(fs, inp.mp_mod))
        + Num(multiplayer /\ Exists(fs, inp.mp_starter))
        + Num(Truthy(inp.s1api_path) /\ Exists(fs, inp.s1api_path))
        + Num(Truthy(inp.unity_explorer_path) /\ Exists(fs, inp.unity_explorer_path))

\* the stages that copy a source and note the call
CallStages == ModItemStages \cup {"mp_starter"}

\* a missing source leaves no entry of its name in the destination tree, is
\* not counted, and the call that meets it returns False and writes nothing
MissingSourceUntouched ==
    /\ \A m \in MissingSources : \A q \in DOMAIN fs :
            IsPrefix(game_dir, q) => Name(q) # Name(m)
    /\ total_copied <= PresentCount + 1
    /\ (last.stage \in CallStages /\ ~Exists(last.pre, last.src)) =>
            ~last.ret /\ fs = last.pre

\* C11 (the claim as stated, for runs that meet no I/O error): a source path
\* that does not exist is not copied and not counted, and the run goes on
\* through the remaining stages to the summary: it does not end in an
\* uncaught exception.
C11_MissingSourceSkipped ==
    /\ MissingSourceUntouched
    /\ (MissingSources # {} /\ faults = 0) => pc # "crashed"

\* the immediate subdirectories of the latest call's add-on whose name is r
\* in some letter case
Matches(r) ==
    { q \in IterDir(last.pre, last.src) :
        IsDir(last.pre, q) /\ Lower(Name(q)) = Lower(r) }

\* every item of folder d is at the claimed home of root r
FannedOut(d, r) ==
    \A item \in IterDir(last.pre, d) :
        LET t == ClaimedDst(r) \o <<Name(item)>>
        IN  Exists(fs, t) /\ SubTree(fs, t) = SubTree(last.pre, item)

\* no item of folder d was written to the home of root r
LeftOut(d, r) ==
    \A item \in IterDir(last.pre, d) :
        LET t == ClaimedDst(r) \o <<Name(item)>>
        IN  /\ Exists(fs, t) <=> Exists(last.pre, t)
            /\ SubTree(fs, t) = SubTree(last.pre, t)

\* C12: a folder add-on is treated as a structured tree exactly when it has
\* an immediate subdirectory named Mods, Plugins or UserLibs in some letter
\* case; for each root with several such subdirectories the items of exactly
\* one of them are fanned out and the items of the others are not written.
\* A folder without such a subdirectory is copied whole under its own name.
C12_OneRootPerName ==
    (AfterModItem /\ last.ret /\ last.F = {} /\ IsDir(last.pre, last.src)) =>
        IF \A r \in RootNames : Matches(r) = {}
        THEN SubTree(fs, ClaimedDst("Mods") \o <<Name(last.src)>>)
                = SubTree(last.pre, last.src)
        ELSE /\ \A r \in RootNames : Matches(r) # {} =>
                    \E d \in Matches(r) :
                        /\ FannedOut(d, r)
                        /\ \A e \in Matches(r) \ {d} : LeftOut(e, r)
             /\ ~Exists(fs, ClaimedDst("Mods") \o <<Name(last.src)>>)

\* AddonM, with the folders mods and Mods, has been copied: the item of mods
\* is in the mods directory, the item of Mods is not
C12_Witness ==
    /\ AfterModItem
    /\ last.ret
    /\ last.F = {}
    /\ last.src = Ext(<<"AddonM">>)
    /\ Cardinality(Matches("Mods")) = 2
    /\ Exists(fs, mods_dir \o <<"Low.dll">>)
    /\ ~Exists(fs, mods_dir \o <<"Up.dll">>)

\* x is a word of the command line cmd
InCmd(cmd, x) == \E k \in 1..Len(cmd) : cmd[k] = x

\* at most one process is started, none with --no-launch, only after the
\* copy of the built mod, and it is the game in single-player mode and the
\* starter, not the game, in multiplayer mode
LaunchChoice ==
    /\ inp.no_launch => spawned = <<>>
    /\ Len(spawned) <= 1
    /\ spawned # <<>> =>
            /\ last.stage = "built" /\ last.ret
            /\ IF Supplied(inp.mp_mod) /\ Supplied(inp.mp_starter)
               THEN /\ InCmd(spawned[1].cmd, game_dir \o <<Name(inp.mp_starter)>>)
                    /\ ~InCmd(spawned[1].cmd, exe_path)
               ELSE InCmd(spawned[1].cmd, exe_path)

\* the run has left the launch stage: the built mod was copied and main
\* has gone past the launch
PastLaunch == last.stage = "built" /\ last.ret /\ pc # "launch"

\* C13 (the claim as stated): with --no-launch no process is started;
\* otherwise exactly one is started once all copies are made, the game in
\* single-player mode and the starter in multiplayer mode; in all three
\* cases the run ends with the summary.
C13_LaunchSelection ==
    /\ LaunchChoice
    /\ PastLaunch =>
            /\ pc = "done"
            /\ Len(spawned) = Num(~inp.no_launch)

\* the debug flag as the claim names it: one extra argument of the command
DebugArg == <<"--melonloader.debug">>

\* C14 (the claim as stated): every command the run starts carries the
\* debug flag when --debug was given, on the single-player launch (native
\* or through wine) and on the multiplayer launch on every host, and no
\* command carries it when --debug was not given.
C14_DebugFlagOnEveryLaunch ==
    \A k \in 1..Len(spawned) : InCmd(spawned[k].cmd, DebugArg) <=> inp.debug

\* the claimed home of the starter: parent(modsDir)/<starter name>
ClaimedStarter == <<"/", "game", Name(inp.mp_starter)>>

\* the k-th stage noted is st
StageAt(k, st) == trace[k].st = st

\* C15: a starter that exists is copied to parent(modsDir)/<name> when
\* nothing of that name is there or force is set, and is counted; otherwise
\* it is skipped, nothing changes and the count stays.  The copy writes that
\* one path and nothing in the mods directory.  The multiplayer mod is
\* handled before the starter, by copy_mod_item with the skip rule of the
\* user add-ons, and counted when that call returns True.  (Calls that meet
\* no I/O error.)
C15_StarterBesideMods ==
    /\ (last.stage = "mp_starter" /\ last.F = {} /\ Exists(last.pre, last.src)) =>
            IF ~Exists(last.pre, ClaimedStarter) \/ inp.force_copy
            THEN /\ last.ret
                 /\ total_copied = last.before + 1
                 /\ IsFile(fs, ClaimedStarter)
                 /\ fs[ClaimedStarter] = last.pre[last.src]
                 /\ DOMAIN fs = DOMAIN last.pre \cup {ClaimedStarter}
                 /\ \A q \in DOMAIN last.pre : q # ClaimedStarter => fs[q] = last.pre[q]
            ELSE /\ ~last.ret
                 /\ total_copied = last.before
                 /\ fs = last.pre
    /\ \A k \in 1..Len(trace) : StageAt(k, "mp_starter") =>
            \E j \in 1..(k - 1) : StageAt(j, "mp_mod")
    /\ (last.stage = "mp_mod" /\ last.F = {}) =>
            /\ [f |-> fs, ret |-> last.ret]
                  = copy_mod_item(last.pre, last.src, ClaimedDst("Mods"),
                                  ~inp.force_copy, last.sub, {})
            /\ total_copied = last.before + Num(last.ret)

\* with force, the starter has replaced an older one beside the mods
\* directory, after the multiplayer mod was handled
C15_Witness ==
    /\ last.stage = "mp_starter"
    /\ last.ret
    /\ inp.force_copy
    /\ Exists(last.pre, ClaimedStarter)
    /\ last.pre[ClaimedStarter] = "old"
    /\ fs[ClaimedStarter] = "starter"
    /\ \E j \in 1..Len(trace) : StageAt(j, "mp_mod")

\* the time at which wait_for_exit was entered
WaitStart == IF term.grace THEN GraceDelay ELSE 0

\* what the wait has come to: Stopped exactly when its latest poll found the
\* process absent, and that poll was made before the deadline
\* requestedWait + safety margin; StillRunning exactly when it has ended
\* otherwise, with every poll having found the process and the deadline
\* reached.  The clean stage is entered only from an ended wait, and
\* neither outcome makes the exit status non-zero.
WaitOutcome ==
    /\ term.called => deadline = WaitStart + inp.wait_seconds + SafetyMargin
    /\ term.called => clock = WaitStart + term.sleeps * PollInterval
    /\ term.outcome = "stopped" <=> term.polls = term.sleeps + 1
    /\ term.outcome = "stopped" => clock < deadline
    /\ term.outcome = "still_running" <=>
            (term.called /\ pc \notin {"wait", "killed"} /\ term.polls = term.sleeps)
    /\ term.outcome = "still_running" => clock >= deadline
    /\ term.outcome # "none" => pc # "wait" /\ exit_code = 0
    /\ ("wait_end" \in Stages <=> term.outcome # "none")
    /\ pc = "clean" => term.outcome # "none"

\* C16: every wait for the process ends, whatever the process does, as
\* Stopped or as StillRunning as described by WaitOutcome, and the run then
\* goes on to the clean and the copies.
C16_WaitAlwaysEnds ==
    /\ []WaitOutcome
    /\ (pc = "wait") ~> (pc = "clean" /\ term.outcome # "none")

\* a run has finished although the process outlived the whole wait
C16_Witness ==
    /\ pc = "done"
    /\ term.outcome = "still_running"
    /\ term.sleeps > 1
    /\ term.game_at_call

\* an I/O error struck the entry in the latest call
Struck(item) == \E c \in {"rm", "copy"} : <<item, c>> \in last.F

\* how many stages named st the run has noted
StageCount(st) == Cardinality({k \in 1..Len(trace) : StageAt(k, st)})

\* the run has made every clean and copy call its arguments ask for
AllAttempted ==
    /\ inp.clean => StageCount("clean") = 1
    /\ StageCount("user") = Cardinality({k \in 1..Len(inp.mod) :
                                            Exists(fs, ResolveMod(inp.mod[k]))})
    /\ (Supplied(inp.mp_mod) /\ Supplied(inp.mp_starter)) =>
            StageCount("mp_mod") = 1 /\ StageCount("mp_starter") = 1
    /\ Supplied(inp.s1api_path) => StageCount("s1api") = 1
    /\ Supplied(inp.unity_explorer_path) => StageCount("unity") = 1

CountedStages == CallStages \cup {"built"}

\* where the source of the latest call belongs at the destination
CallMapping ==
    IF last.stage = "mp_starter" THEN { <<last.src, ClaimedStarter>> }
    ELSE LastMapping

\* the latest call has copied something: an entry of its source that no
\* error struck is at its home with the source's content
SomethingCopied ==
    \E m \in CallMapping :
        /\ ~Struck(m[1])
        /\ Exists(fs, m[2])
        /\ SubTree(fs, m[2]) = SubTree(last.pre, m[1])

\* nothing of the source of the latest call was at the destination before
NothingPresent == \A m \in CallMapping : ~Exists(last.pre, m[2])

\* C18 (the claim as stated): the count goes up by one for a call that
\* copied its source and stays for a source that is missing, skipped, or
\* whose copy failed, a structured add-on all of whose item copies failed
\* included; it is counted once for the built mod, and it changes in no
\* other way, so that the summary's total is the number of copies made.
C18_CountIsCopies ==
    /\ total_copied <= Cardinality({k \in 1..Len(trace) : trace[k].st \in CountedStages})
    /\ last.stage \in CountedStages =>
            /\ total_copied \in {last.before, last.before + 1}
            /\ total_copied = last.before + 1 =>
                    Exists(last.pre, last.src) /\ SomethingCopied
            /\ (Exists(last.pre, last.src) /\ last.F = {}
                    /\ (NothingPresent \/ ~last.skip)) =>
                    total_copied = last.before + 1
    /\ \A k \in 1..Len(hist) : hist[k].total >= 1
    /\ pc = "done" => hist[Len(hist)].total = total_copied

\* the folders the latest call copied onto a folder that was there: a flat
\* add-on, a folder item of a structured root, or a built mod that is a folder
Replaced ==
    { m \in CallMapping :
        /\ IsDir(last.pre, m[1])
        /\ IsDir(last.pre, m[2])
        /\ ~Struck(m[1]) }

\* C19: when a call copies a folder onto a destination folder that exists,
\* the destination afterwards holds the source's entries and no others:
\* nothing that was only in the old destination is left.
C19_ReplaceNotMerge ==
    (last.stage \in CountedStages /\ last.ret) =>
        \A m \in Replaced :
            /\ SubTree(fs, m[2]) = SubTree(last.pre, m[1])
            /\ \A q \in DOMAIN last.pre :
                    (IsPrefix(m[2], q)
                        /\ m[1] \o SubSeq(q, Len(m[2]) + 1, Len(q)) \notin DOMAIN last.pre)
                    => q \notin DOMAIN fs

\* with force, the folder Pack of AddonA's Mods root has replaced an older
\* Pack in the mods directory
C19_Witness ==
    /\ last.stage \in ModItemStages
    /\ last.ret
    /\ last.src = Ext(<<"AddonA">>)
    /\ <<Ext(<<"AddonA", "Mods", "Pack">>), mods_dir \o <<"Pack">> >> \in Replaced
    /\ Exists(last.pre, mods_dir \o <<"Pack", "old.txt">>)
    /\ ~Exists(fs, mods_dir \o <<"Pack", "old.txt">>)
    /\ Exists(fs, mods_dir \o <<"Pack", "p.txt">>)

\* a built mod that is a folder has replaced an older folder of its name
C19_FolderTargetReplaced ==
    /\ last.stage = "built"
    /\ last.ret
    /\ Replaced # {}
    /\ Exists(last.pre, mods_dir \o <<"Flat", "old.txt">>)
    /\ ~Exists(fs, mods_dir \o <<"Flat", "old.txt">>)

\* with force, a flat folder add-on has replaced an older folder of its name
C19_FlatFolderReplaced ==
    /\ last.stage \in ModItemStages
    /\ last.ret
    /\ last.src = Ext(<<"Flat">>)
    /\ Replaced # {}
    /\ ~Exists(fs, mods_dir \o <<"Flat", "old.txt">>)

\* the sibling directories of the mods directory
Siblings == {"Plugins", "UserLibs"}

\* the latest clean or copy call, or the start of the run if there was none
\* yet, has made the sibling directory of root r
Created(r) == Exists(fs, ClaimedDst(r)) /\ ~Exists(last.pre, ClaimedDst(r))

\* C20 (the claim as stated, for runs that meet no I/O error): in every
\* state of a run, a sibling directory Plugins or UserLibs that the run has
\* made holds at least one item, put there by the copy of a structured
\* add-on that has items in that root; runs with single files and flat
\* folders only, or with structured add-ons whose Plugins and UserLibs roots
\* are absent or empty, make neither.
C20_LazySiblings ==
    faults = 0 =>
        \A r \in Siblings :
            Created(r) =>
                /\ AfterModItem
                /\ r \in LastRoots
                /\ IterDir(last.pre, last.sub[r]) # {}
                /\ IterDir(fs, ClaimedDst(r)) # {}

\* C21 (the claim as stated): every process the run has started, the game
\* of a single-player launch as well as the starter of a multiplayer launch,
\* was started detached, in a process group or session of its own, and the
\* run has not waited for it.
C21_LaunchDetached ==
    \A k \in 1..Len(spawned) : spawned[k].detached /\ ~spawned[k].waited

\* the arguments the claim gives the launched game
ClaimedArgs == IF inp.debug THEN <<DebugArg>> ELSE <<>>

\* the variable that keeps the compatibility layer's version popup away,
\* and the variable that names its prefix
PopupVar == "WINEDLLOVERRIDES"
PrefixVar == "WINEPREFIX"

\* the environment e is the inherited one with the popup variable set, and
\* with the prefix variable set to the supplied prefix when one was supplied
CompatEnv(e) ==
    /\ DOMAIN e = DOMAIN inp.environ \cup {PopupVar}
                    \cup (IF Supplied(inp.wine_prefix) THEN {PrefixVar} ELSE {})
    /\ e[PopupVar] = <<"version=n,b">>
    /\ Supplied(inp.wine_prefix) => e[PrefixVar] = inp.wine_prefix
    /\ \A n \in DOMAIN inp.environ :
            (n = PopupVar \/ (n = PrefixVar /\ Supplied(inp.wine_prefix)))
                \/ e[n] = inp.environ[n]

\* the run is a single-player one
SinglePlayer == ~(Supplied(inp.mp_mod) /\ Supplied(inp.mp_starter))

\* C22: the process of a single-player launch runs in the directory of the
\* executable; on a host that runs the executable natively its command is
\* the executable followed by the arguments and its environment is the
\* inherited one, unchanged; through the compatibility layer its command is
\* the layer's binary, the executable and the arguments, and its environment
\* is the inherited one with the popup variable always set and the prefix
\* variable set exactly when a prefix was supplied.
C22_SinglePlayerCommand ==
    SinglePlayer =>
        \A k \in 1..Len(spawned) :
            /\ spawned[k].cwd = Parent(exe_path)
            /\ IF inp.windows
               THEN /\ spawned[k].cmd = <<exe_path>> \o ClaimedArgs
                    /\ spawned[k].env = inp.environ
               ELSE /\ spawned[k].cmd = <<inp.wine_binary, exe_path>> \o ClaimedArgs
                    /\ CompatEnv(spawned[k].env)

\* a launch through the compatibility layer with a prefix supplied over an
\* inherited one
C22_Witness ==
    /\ SinglePlayer
    /\ spawned # <<>>
    /\ ~inp.windows
    /\ Supplied(inp.wine_prefix)
    /\ PrefixVar \in DOMAIN inp.environ
    /\ inp.debug

\* a launch through the compatibility layer without a prefix: the popup
\* variable is the only one added
C22_NoPrefix ==
    /\ SinglePlayer
    /\ spawned # <<>>
    /\ ~inp.windows
    /\ inp.wine_prefix = EmptyStr
    /\ DOMAIN spawned[1].env = {"PATH", PopupVar}

\* the add-ons a run names: user add-ons, the multiplayer mod, the libraries
AddOns ==
    {ResolveMod(inp.mod[k]) : k \in 1..Len(inp.mod)}
        \cup (IF SinglePlayer THEN {} ELSE {inp.mp_mod})
        \cup {p \in {inp.s1api_path, inp.unity_explorer_path} : Supplied(p)}

\* the immediate subdirectories of add-on p whose name is root r in any
\* letter case
RootsOf(p, r) ==
    { q \in IterDir(fs, p) : IsDir(fs, q) /\ Lower(Name(q)) = Lower(r) }

\* add-on p is at the destination: a file or a flat folder under its own
\* name in the mods directory, a structured tree with every item of a folder
\* of each of its roots in that root's home
Delivered(p) ==
    IF IsDir(fs, p) /\ (\E r \in RootNames : RootsOf(p, r) # {})
    THEN \A r \in RootNames :
            \/ RootsOf(p, r) = {}
            \/ \E q \in RootsOf(p, r) :
                    \A item \in IterDir(fs, q) :
                        Exists(fs, ClaimedDst(r) \o <<Name(item)>>)
    ELSE Exists(fs, ClaimedDst("Mods") \o <<Name(p)>>)

\* the latest call of copy_mod_item skipped a structured add-on
StructuredSkipped ==
    /\ AfterModItem
    /\ last.skip
    /\ IsDir(last.pre, last.src)
    /\ LastRoots # {}

\* every existing add-on of a finished run is at the destination
AllDelivered == \A p \in AddOns : Exists(fs, p) => Delivered(p)

\* C23 (the claim as stated): a run that reaches its summary and has met no
\* copy failure leaves every item of every existing add-on at its
\* destination, and a structured add-on is skipped only when all its items,
\* in all three roots, were at the destination before the call.
C23_NothingLeftBehind ==
    /\ (pc = "done" /\ faults = 0) => AllDelivered
    /\ StructuredSkipped => LastPresent

\* with --force-copy nothing is skipped and the finished run has delivered
\* every existing add-on
C23_ForcedDelivers ==
    (pc = "done" /\ faults = 0 /\ inp.force_copy) => AllDelivered

\* a forced run over a stale destination has finished with a structured
\* add-on among its add-ons
C23_ForcedWitness ==
    /\ pc = "done"
    /\ faults = 0
    /\ inp.force_copy
    /\ inp.stale
    /\ \E p \in AddOns : IsDir(fs, p) /\ (\E r \in RootNames : RootsOf(p, r) # {})

\* the k-th process started is the multiplayer starter
StarterLaunched(k) == InCmd(spawned[k].cmd, ClaimedStarter)

\* C24 (the claim as stated): whenever the multiplayer starter has been
\* launched, the file parent(modsDir)/<starter name> is there, as the copy
\* stage placed it or found it: the starter is never launched after its
\* source was missing, or its copy failed, with no earlier copy in place.
C24_StarterThereAtLaunch ==
    \A k \in 1..Len(spawned) :
        (~SinglePlayer /\ StarterLaunched(k)) => IsFile(fs, ClaimedStarter)

\* the script itself was never signalled by its kill-by-name
OwnProcessSpared == pc # "killed"

\* a wait that began with no instance of the application did not end with
\* "may still be running"
NoPhantomInstance ==
    (term.called /\ ~term.game_at_call) => term.outcome # "still_running"

\* C25 (the claim as stated): the kill-by-name and the presence check match
\* the target application only: the script's own process is never signalled
\* and never counts as a running instance, so a wait that begins with no
\* instance of the application never ends with "may still be running".
C25_OnlyTheTargetMatches == OwnProcessSpared /\ NoPhantomInstance

\* on Windows, where taskkill and tasklist go by image name, the script is
\* never signalled, and with a requested wait of zero or more a wait that
\* began with no instance ends with "stopped"
C25_ByImageName ==
    inp.windows =>
        /\ OwnProcessSpared
        /\ inp.wait_seconds >= 0 => NoPhantomInstance

\* on Windows a wait that began with no instance has ended
C25_ByImageNameWitness ==
    /\ inp.windows
    /\ term.called
    /\ ~term.game_at_call
    /\ term.outcome = "stopped"

====
